---- MODULE Spec2Model ----
(***************************************************************************)
(* Model of the fmf command line (src/fmf/cli.py) and of the tree engine   *)
(* it drives.  The engine (Tree, Tree.init, Tree.prune, Tree.show, the     *)
(* merge of parent and child data) is imported by cli.py from the fmf      *)
(* package; those parts follow the specification and the unit tests, the   *)
(* command handlers follow cli.py statement by statement.                  *)
(***************************************************************************)
EXTENDS Integers, Sequences, FiniteSets, TLC

VARIABLES
    fs,        \* the directories on disk: version marker and write permission
    last,      \* the last command line invocation: arguments and observable result
    mparent,   \* merge under test: resolved data of the parent
    mchild,    \* merge under test: raw data of the child
    mresult,   \* merge under test: resolved data of the child
    norm       \* normalize under test: the arguments of the call and its result

vars == <<fs, last, mparent, mchild, mresult, norm>>

(***************************************************************************)
(* Bounds                                                                  *)
(***************************************************************************)
\* longest list of --path options of one invocation
MaxPaths == 2
\* largest number of selection criteria (all kinds together) of one request
MaxCrit == 2
\* longest sequence value drawn for the merge
MaxLen == 2
\* longest list handed to normalize
MaxItems == 2

(***************************************************************************)
(* Raw values (fmf/typing.py DataType).  A value is a scalar, a list or a  *)
(* mapping; it is kept as a tagged record so values of different kinds can *)
(* be compared.  Scalars and list elements are strings, mappings map       *)
(* strings to strings (one level of nesting).                              *)
(***************************************************************************)
Scalar(x) == [t |-> "s", v |-> <<x>>, m |-> {}]
List(xs) == [t |-> "l", v |-> xs, m |-> {}]
Mapping(pairs) == [t |-> "m", v |-> <<>>, m |-> pairs]

Range(s) == {s[i] : i \in DOMAIN s}

EmptyData == [k \in {} |-> Scalar("")]

(***************************************************************************)
(* Merge Engine (spec 4.1).  The child's raw keys may carry a marker       *)
(* suffix; KeyBase and KeyMarker split a raw key the way the suffix test   *)
(* on the last character does.                                             *)
(***************************************************************************)
KeyMarker(k) ==
    CASE k \in {"tag+", "note+", "tags+"} -> "+"
      [] k \in {"tag-", "note-", "tags-"} -> "-"
      [] OTHER -> ""

KeyBase(k) ==
    CASE k \in {"tag+", "tag-"} -> "tag"
      [] k \in {"note+", "note-"} -> "note"
      [] k \in {"tags+", "tags-"} -> "tags"
      [] OTHER -> k

\* the raw key of the child that resolves to key b (the child holds at most one)
ChildKey(child, b) == CHOOSE k \in DOMAIN child : KeyBase(k) = b

ChildBases(child) == {KeyBase(k) : k \in DOMAIN child}

\* parent value with the child's listed elements removed
Removed(pv, cv) ==
    CASE pv.t = "l" -> List(SelectSeq(pv.v, LAMBDA e : e \notin Range(cv.v)))
      [] pv.t = "m" -> Mapping({p \in pv.m : p[1] \notin Range(cv.v)})
      [] OTHER -> pv

\* mapping merged one level deeper: the child's entries override by key
MergeMapping(pv, cv) ==
    Mapping({p \in pv.m : \A c \in cv.m : c[1] # p[1]} \cup cv.m)

\* the keys of the resolved data: a remove marker on a scalar deletes the key
MergedKeys(parent, child) ==
    (DOMAIN parent \cup ChildBases(child))
    \ {b \in DOMAIN parent \cap ChildBases(child) :
          KeyMarker(ChildKey(child, b)) = "-" /\ parent[b].t = "s"}

MergeValue(parent, child, b) ==
    IF b \notin ChildBases(child) THEN parent[b]
    ELSE LET k == ChildKey(child, b)
             cv == child[k]
         IN  IF b \notin DOMAIN parent THEN cv
             ELSE LET pv == parent[b]
                  IN  IF KeyMarker(k) = "+" /\ pv.t = "l" /\ cv.t = "l"
                          THEN List(pv.v \o cv.v)
                      ELSE IF KeyMarker(k) = "-" THEN Removed(pv, cv)
                      ELSE IF pv.t = "m" /\ cv.t = "m" THEN MergeMapping(pv, cv)
                      ELSE cv

\* faulty variant: the marker suffix is not resolved, the child's raw keys are stored
merge_KeepsSuffix(parent, child) ==
    [b \in (DOMAIN parent \cup DOMAIN child) |->
        IF b \in DOMAIN child THEN child[b] ELSE parent[b]]

merge(parent, child) ==
    [b \in MergedKeys(parent, child) |-> MergeValue(parent, child, b)]

(***************************************************************************)
(* The metadata trees on disk.  A tree is a sequence of nodes in discovery *)
(* order; a node has its name, the segments of the name, its parent (0 for *)
(* the root), its children in discovery order, its own raw data and the    *)
(* files that contributed to it.                                           *)
(***************************************************************************)
Dirs == {"a", "b"}

Src(file, segs) == [file |-> file, segs |-> segs]

TreeA ==
    << [name |-> "/", segs |-> <<>>, parent |-> 0, children |-> <<2, 5>>,
        raw |-> EmptyData,
        sources |-> <<Src("a/main.fmf", <<"a", "main.fmf">>)>>],
       [name |-> "/x", segs |-> <<"x">>, parent |-> 1, children |-> <<3, 4>>,
        raw |-> [tags |-> List(<<"Tier1">>)],
        sources |-> <<Src("a/main.fmf", <<"a", "main.fmf">>),
                      Src("a/x/main.fmf", <<"a", "x", "main.fmf">>)>>],
       [name |-> "/x/p", segs |-> <<"x", "p">>, parent |-> 2, children |-> <<>>,
        raw |-> ("tags+" :> List(<<"TierSecurity">>)) @@ ("depth" :> Scalar("1000")),
        sources |-> <<Src("a/main.fmf", <<"a", "main.fmf">>),
                      Src("a/x/main.fmf", <<"a", "x", "main.fmf">>),
                      Src("a/x/p.fmf", <<"a", "x", "p.fmf">>)>>],
       [name |-> "/x/q", segs |-> <<"x", "q">>, parent |-> 2, children |-> <<>>,
        raw |-> ("tags+" :> List(<<"TierA">>)),
        sources |-> <<Src("a/main.fmf", <<"a", "main.fmf">>),
                      Src("a/x/main.fmf", <<"a", "x", "main.fmf">>)>>],
       [name |-> "/y", segs |-> <<"y">>, parent |-> 1, children |-> <<>>,
        raw |-> [execute |-> Mapping({<<"how", "dependency">>})],
        sources |-> <<Src("a/main.fmf", <<"a", "main.fmf">>),
                      Src("a/y.fmf", <<"a", "y.fmf">>)>>] >>

TreeB ==
    << [name |-> "/", segs |-> <<>>, parent |-> 0, children |-> <<2>>,
        raw |-> [tags |-> List(<<"Tier1", "TierSecurity">>)],
        sources |-> <<Src("b/main.fmf", <<"b", "main.fmf">>)>>],
       [name |-> "/z", segs |-> <<"z">>, parent |-> 1, children |-> <<>>,
        raw |-> ("tags-" :> List(<<"TierSecurity">>)) @@ ("depth" :> Scalar("1")),
        sources |-> <<Src("b/main.fmf", <<"b", "main.fmf">>),
                      Src("b/z.fmf", <<"b", "z.fmf">>)>>] >>

Files(p) == IF p = "a" THEN TreeA ELSE TreeB

\* resolved data of node n: the parent's resolved data merged with the own raw data
RECURSIVE Resolve(_, _)
Resolve(nodes, n) ==
    IF nodes[n].parent = 0 THEN merge(EmptyData, nodes[n].raw)
    ELSE merge(Resolve(nodes, nodes[n].parent), nodes[n].raw)

\* the tree built by Tree(path): every node with its resolved data
Grow(p) ==
    [n \in DOMAIN Files(p) |->
        [name |-> Files(p)[n].name, segs |-> Files(p)[n].segs,
         parent |-> Files(p)[n].parent, children |-> Files(p)[n].children,
         data |-> Resolve(Files(p), n), sources |-> Files(p)[n].sources]]

GrownA == Grow("a")
GrownB == Grow("b")
Grown(p) == IF p = "a" THEN GrownA ELSE GrownB

\* Tree(path): the version marker decides whether the tree loads
Tree(disk, p) ==
    CASE disk[p].marker = "none" -> "FileError"
      [] disk[p].marker \in {"missing", "bad"} -> "FormatError"
      [] OTHER -> "ok"

(***************************************************************************)
(* Selection Engine (spec 4.2): Tree.climb and Tree.prune.                 *)
(***************************************************************************)
\* re.search of a literal pattern: the pattern occurs as a contiguous part
Contains(hay, needle) ==
    \E i \in 0..(Len(hay) - Len(needle)) : SubSeq(hay, i + 1, i + Len(needle)) = needle

\* the strings (of the values that occur) a value pattern matches
Matched(pat) ==
    CASE pat = "Tier1" -> {"Tier1"}
      [] pat = "TierSecurity" -> {"TierSecurity"}
      [] pat = "Tier[A-Z].*" -> {"TierSecurity", "TierA"}
      [] OTHER -> {}

\* pre-order walk with an explicit work stack: a node, then its children in order
RECURSIVE Walk(_, _, _)
Walk(nodes, stack, whole) ==
    IF stack = <<>> THEN <<>>
    ELSE LET n == Head(stack)
             rest == Walk(nodes, nodes[n].children \o Tail(stack), whole)
         IN  IF whole \/ nodes[n].children = <<>> THEN <<n>> \o rest ELSE rest

climb(nodes, whole) == Walk(nodes, <<1>>, whole)

HasKeys(node, keys) == \A k \in keys : k \in DOMAIN node.data

MatchesName(node, names) ==
    names = {} \/ \E pat \in names : Contains(node.segs, pat)

MatchesSource(node, sources) ==
    sources = {} \/ \E s \in sources : \E i \in DOMAIN node.sources :
                                          Contains(node.sources[i].segs, s)

\* one filter key:pattern; a missing key fails the filter
PassesFilter(node, f) ==
    /\ f.key \in DOMAIN node.data
    /\ LET val == node.data[f.key]
       IN  /\ val.t \in {"s", "l"}
           /\ \E i \in DOMAIN val.v : val.v[i] \in Matched(f.pat)

PassesFilters(node, filters) == \A f \in filters : PassesFilter(node, f)

\* a condition  key == "val"  (sub = "")  or  key["sub"] == "val"
Evaluate(node, c) ==
    IF c.key \notin DOMAIN node.data THEN "error"
    ELSE LET val == node.data[c.key]
         IN  IF c.sub = "" THEN (IF val = Scalar(c.val) THEN "true" ELSE "false")
             ELSE IF val.t # "m" THEN "error"
             ELSE IF \A e \in val.m : e[1] # c.sub THEN "error"
             ELSE IF <<c.sub, c.val>> \in val.m THEN "true" ELSE "false"

PassesConditions(node, conditions) ==
    \A c \in conditions : Evaluate(node, c) = "true"

Passes(node, sel) ==
    /\ HasKeys(node, sel.keys)
    /\ MatchesName(node, sel.names)
    /\ PassesFilters(node, sel.filters)
    /\ MatchesSource(node, sel.sources)
    /\ PassesConditions(node, sel.conditions)

prune(nodes, sel) ==
    SelectSeq(climb(nodes, sel.whole), LAMBDA n : Passes(nodes[n], sel))

(***************************************************************************)
(* Format Renderer (spec 4.3): Tree.show.  A text is a sequence of tokens; *)
(* "\n" is the line terminator.  The result is a text or absent (None).    *)
(***************************************************************************)
None == [none |-> TRUE, text |-> <<>>]
Text(t) == [none |-> FALSE, text |-> t]

KeyOrder == <<"depth", "execute", "tags">>

\* a value expression: the node's name or one of its keys
CanEval(node, e) == e = "name" \/ e \in DOMAIN node.data

Eval(node, e) ==
    IF e = "name" THEN node.name
    ELSE LET val == node.data[e]
         IN  CASE val.t = "s" -> val.v[1]
               [] val.t = "l" -> "[list]"
               [] OTHER -> "{dict}"

RECURSIVE Lines(_, _)
Lines(node, keys) ==
    IF keys = <<>> THEN <<>>
    ELSE (IF Head(keys) \in DOMAIN node.data THEN <<Head(keys), "\n">> ELSE <<>>)
         \o Lines(node, Tail(keys))

Expand(node, text, values) ==
    [i \in DOMAIN text |-> IF text[i] = "{0}" THEN Eval(node, values[1]) ELSE text[i]]

Tree_show(node, brief, formatting, values) ==
    IF brief THEN Text(<<node.name, "\n">>)
    ELSE IF ~formatting.given THEN Text(<<node.name, "\n">> \o Lines(node, KeyOrder))
    ELSE IF \E i \in DOMAIN values : ~CanEval(node, values[i]) THEN None
    ELSE Text(Expand(node, formatting.text, values))

(***************************************************************************)
(* Command line (src/fmf/cli.py).                                          *)
(***************************************************************************)
SelectOptions == {"keys", "names", "sources", "filters", "conditions", "whole"}

\* faulty variant: the filters are not handed on
_select_options_NoFilters(kwargs) ==
    [opt \in SelectOptions |-> IF opt = "filters" THEN {} ELSE kwargs[opt]]

\* faulty variant: the conditions are not handed on
_select_options_NoConditions(kwargs) ==
    [opt \in SelectOptions |-> IF opt = "conditions" THEN {} ELSE kwargs[opt]]

\* faulty variant: the sources are not handed on
_select_options_NoSources(kwargs) ==
    [opt \in SelectOptions |-> IF opt = "sources" THEN {} ELSE kwargs[opt]]

\* the wrapper of _select_options groups the six options into one variable
_select_options(kwargs) == [opt \in SelectOptions |-> kwargs[opt]]

\* the wrapper of _format_options groups the two options into one variable
_format_options(formatting, values) ==
    [present |-> TRUE, formatting |-> formatting, values |-> values]

\* --format not given (the option's default None) and a given template
NoFormatting == [given |-> FALSE, text |-> <<>>]
Formatting(text) == [given |-> TRUE, text |-> text]

\* format_opts=None, the default of _show that ls relies on
NoFormatOpts == [present |-> FALSE, formatting |-> NoFormatting, values |-> <<>>]

RECURSIVE join(_, _)
join(sep, output) ==
    IF output = <<>> THEN <<>>
    ELSE IF Len(output) = 1 THEN output[1]
    ELSE output[1] \o sep \o join(sep, Tail(output))

\* color(f"{source}\n", "blue") for each source of the node
RECURSIVE SourceLines(_)
SourceLines(sources) ==
    IF sources = <<>> THEN <<>>
    ELSE <<Head(sources).file, "\n">> \o SourceLines(Tail(sources))

\* lines 196-199: the text of one node
NodeShow(node, format_opts, brief) ==
    IF brief THEN Tree_show(node, TRUE, NoFormatting, <<>>)
    ELSE Tree_show(node, FALSE, format_opts.formatting, format_opts.values)

\* faulty variant: the output is collected in front of the list
Collect_Prepend(acc, i, n, text) ==
    [acc EXCEPT !.output = <<text>> \o @, !.emitted = <<<<i, n>>>> \o @]

\* line 205: output.append(show_out)
Collect(acc, i, n, text) ==
    [acc EXCEPT !.output = Append(@, text), !.emitted = Append(@, <<i, n>>)]

\* lines 195-205: the body of the loop over the pruned nodes, for node n of path i
ShowNode(acc, i, n, node, format_opts, brief, debug) ==
    LET show_out == NodeShow(node, format_opts, brief)
        seen == [acc EXCEPT !.absent = IF show_out.none THEN @ + 1 ELSE @]
    IN  IF debug > 0 /\ node.sources # <<>>
        THEN IF show_out.none
             THEN [seen EXCEPT !.exc = "TypeError"]
             ELSE Collect(seen, i, n, show_out.text \o SourceLines(node.sources))
        ELSE IF show_out.none THEN seen
             ELSE Collect(seen, i, n, show_out.text)

RECURSIVE ShowNodes(_, _, _, _, _, _, _)
ShowNodes(acc, i, nodes, pruned, format_opts, brief, debug) ==
    IF pruned = <<>> \/ acc.exc # "none" THEN acc
    ELSE ShowNodes(ShowNode(acc, i, Head(pruned), nodes[Head(pruned)], format_opts, brief, debug),
                   i, nodes, Tail(pruned), format_opts, brief, debug)

\* faulty variant: a tree that fails to load is skipped and the loop goes on
LoadFailed_Skip(acc, error) == acc

\* line 193: an exception of Tree(str(p)) leaves the loop and _show
LoadFailed(acc, error) == [acc EXCEPT !.exc = error]

\* lines 190-205: the loop over the paths, from path i on
RECURSIVE ShowPaths(_, _, _, _, _, _, _, _)
ShowPaths(acc, disk, paths, i, select_opts, format_opts, brief, debug) ==
    IF i > Len(paths) \/ acc.exc # "none" THEN acc
    ELSE LET p == paths[i]
             tree == Tree(disk, p)
             loaded == [acc EXCEPT !.loads = Append(@, [path |-> p, marker |-> disk[p].marker,
                                                       result |-> tree])]
             next == IF tree # "ok" THEN LoadFailed(loaded, tree)
                     ELSE ShowNodes(loaded, i, Grown(p), prune(Grown(p), select_opts),
                                    format_opts, brief, debug)
         IN  ShowPaths(next, disk, paths, i + 1, select_opts, format_opts, brief, debug)

\* lines 208-211: "" when brief or a non-empty template is given, "\n" otherwise
Separator(format_opts, brief) ==
    IF brief \/ (format_opts.present /\ format_opts.formatting.given
                    /\ format_opts.formatting.text # <<>>)
    THEN <<>> ELSE <<"\n">>

\* line 214: len(output)
Found(acc) == Len(acc.output)

NoRun ==
    [output |-> <<>>, emitted |-> <<>>, loads |-> <<>>, inits |-> <<>>,
     exc |-> "none", absent |-> 0]

\* _show: what the invocation leaves behind
_show(disk, verbose, debug, paths, select_opts, format_opts, brief) ==
    LET acc == ShowPaths(NoRun, disk, paths, 1, select_opts, format_opts, brief, debug)
        done == acc.exc = "none"
    IN  [exc |-> acc.exc, output |-> acc.output, emitted |-> acc.emitted,
         loads |-> acc.loads, inits |-> acc.inits, absent |-> acc.absent,
         stdout |-> IF done THEN join(Separator(format_opts, brief), acc.output) ELSE <<>>,
         found |-> IF done /\ verbose THEN Found(acc) ELSE -1]

\* Tree.init (spec 4.4): the marker must not be there and the path must be writable
InitError(disk, p) ==
    disk[p].marker \in {"bad", "1"} \/ ~disk[p].writable

Tree_init(disk, p) ==
    IF InitError(disk, p) THEN disk ELSE [disk EXCEPT ![p].marker = "1"]

\* faulty variant: the error of Tree.init is swallowed and the loop goes on
InitPath_Swallows(acc, p) ==
    LET failed == InitError(acc.disk, p)
    IN  [disk |-> Tree_init(acc.disk, p),
         inits |-> Append(acc.inits, [path |-> p, marker |-> acc.disk[p].marker,
                                      writable |-> acc.disk[p].writable,
                                      result |-> IF failed THEN "FileError" ELSE "ok"]),
         exc |-> "none",
         stdout |-> acc.stdout \o <<"initialized", p, "\n">>]

\* lines 170-171: Tree.init(str(p)), which may raise, and the message
InitPath(acc, p) ==
    LET failed == InitError(acc.disk, p)
    IN  [disk |-> Tree_init(acc.disk, p),
         inits |-> Append(acc.inits, [path |-> p, marker |-> acc.disk[p].marker,
                                      writable |-> acc.disk[p].writable,
                                      result |-> IF failed THEN "FileError" ELSE "ok"]),
         exc |-> IF failed THEN "FileError" ELSE "none",
         stdout |-> IF failed THEN acc.stdout
                    ELSE acc.stdout \o <<"initialized", p, "\n">>]

\* line 169: the loop of init, from path i on; acc.disk is the disk so far
RECURSIVE InitPaths(_, _, _)
InitPaths(acc, paths, i) ==
    IF i > Len(paths) \/ acc.exc # "none" THEN acc
    ELSE InitPaths(InitPath(acc, paths[i]), paths, i + 1)

NoSelect ==
    [keys |-> {}, names |-> {}, sources |-> {}, filters |-> {}, conditions |-> {},
     whole |-> FALSE]

\* init: the disk it leaves and what the invocation leaves behind
init_run(disk, paths) ==
    InitPaths([disk |-> disk, inits |-> <<>>, exc |-> "none", stdout |-> <<>>], paths, 1)

(***************************************************************************)
(* Inputs                                                                  *)
(***************************************************************************)
PathLists == UNION {[1..n -> Dirs] : n \in 1..MaxPaths}

Filter(key, pat) == [key |-> key, pat |-> pat]
Condition(key, sub, val) == [key |-> key, sub |-> sub, val |-> val]

AllKeys == {"depth", "tags"}
AllNames == {<<"x">>, <<"x", "p">>, <<"y">>}
AllSources == {<<"x", "main.fmf">>, <<"y.fmf">>}
AllFilters == {Filter("tags", "Tier1"), Filter("tags", "TierSecurity"),
               Filter("tags", "Tier[A-Z].*"), Filter("x", "y")}
AllConditions == {Condition("execute", "how", "dependency"),
                  Condition("execute", "wrong key", "0"),
                  Condition("depth", "", "1000")}

Criteria(sel) ==
    Cardinality(sel.keys) + Cardinality(sel.names) + Cardinality(sel.sources)
    + Cardinality(sel.filters) + Cardinality(sel.conditions)

\* the selection requests with at most n criteria drawn from the given ones
Requests(keys, names, sources, filters, conditions, n) ==
    {sel \in [keys : SUBSET keys, names : SUBSET names, sources : SUBSET sources,
              filters : SUBSET filters, conditions : SUBSET conditions,
              whole : BOOLEAN] : Criteria(sel) <= n}

FormatRequests ==
    {_format_options(NoFormatting, <<>>),
     _format_options(Formatting(<<>>), <<>>),
     _format_options(Formatting(<<"foo">>), <<>>),
     _format_options(Formatting(<<"{0}", "\n">>), <<"depth">>)}

MergeElems == {"a", "b"}
MergeLists == UNION {[1..n -> MergeElems] : n \in 0..MaxLen}
MergeValues ==
    {List(l) : l \in MergeLists} \cup {Scalar(e) : e \in MergeElems}
    \cup {Mapping({}), Mapping({<<"a", "b">>})}

\* parent data over the keys tag and note; child raw data with one raw key for each
MergeParents ==
    UNION {[ks -> MergeValues] : ks \in SUBSET {"tag", "note"}}
MergeChildren ==
    UNION {[ks -> MergeValues] :
              ks \in {c \in SUBSET {"tag", "tag+", "tag-", "note", "note-"} :
                         \A j, k \in c : KeyBase(j) = KeyBase(k) => j = k}}

(***************************************************************************)
(* normalize (src/fmf/normalize.py).  A piece of data is raw (None, a      *)
(* number, a string, a boolean), a mapping or a list; the elements of a    *)
(* list are data again, kept by their label.  A target type is a class or  *)
(* a parametrized generic such as list[Item]; calling a class or a         *)
(* normalizer yields the object made from the callee and its arguments.    *)
(***************************************************************************)
Datum(t, s) == [t |-> t, s |-> s, v |-> <<>>]
ListData(items) == [t |-> "list", s |-> "", v |-> items]

\* a class, and types.GenericAlias: origin[arg]
Class(name) == [generic |-> FALSE, origin |-> name, arg |-> ""]
GenericAlias(origin, arg) == [generic |-> TRUE, origin |-> origin, arg |-> arg]

\* callee(d, *args, **kwargs)
Call(callee, d, args) == [by |-> callee, arg |-> d, args |-> args]

\* the value returned: a list of objects, or one object
Objects(items) == [list |-> TRUE, items |-> items]
Object(item) == [list |-> FALSE, items |-> <<item>>]

\* lines 51-52: data that is not a list becomes the list of that one element
AsList(data) == IF data.t # "list" THEN <<data>> ELSE data.v

\* faulty variant: the list branch constructs the element class although a
\* normalizer is given
normalize_IgnoresNormalizer(cls, data, args, normalizer) ==
    IF cls.generic /\ cls.origin = "list"
    THEN Objects([i \in DOMAIN AsList(data) |-> Call(cls.arg, AsList(data)[i], args)])
    ELSE IF normalizer # "None" THEN Object(Call(normalizer, data, args))
    ELSE Object(Call(cls.origin, data, args))

\* lines 49-59
normalize(cls, data, args, normalizer) ==
    IF cls.generic /\ cls.origin = "list"
    THEN IF normalizer # "None"
         THEN Objects([i \in DOMAIN AsList(data) |-> Call(normalizer, AsList(data)[i], args)])
         ELSE Objects([i \in DOMAIN AsList(data) |-> Call(cls.arg, AsList(data)[i], args)])
    ELSE IF normalizer # "None" THEN Object(Call(normalizer, data, args))
    ELSE Object(Call(cls.origin, data, args))

\* the target types, the data, the extra arguments and the normalizers drawn
NormTypes ==
    {GenericAlias("list", "Item"), GenericAlias("list", "str"),
     GenericAlias("dict", "str"), Class("Item"), Class("list")}
NormItems ==
    {Datum("raw", "a"), Datum("raw", "b"), Datum("dict", "{}"), Datum("list", "[a]")}
NormData ==
    {Datum("raw", "a"), Datum("raw", "None"), Datum("dict", "{}"), Datum("dict", "{k: a}")}
    \cup {ListData(items) : items \in UNION {[1..n -> NormItems] : n \in 0..MaxItems}}
NormArgs == {<<>>, <<"x">>}
Normalizers == {"None", "f"}

NotCalled == [list |-> FALSE, items |-> <<>>]

NormCall(cls, data, args, normalizer, result) ==
    [cls |-> cls, data |-> data, args |-> args, normalizer |-> normalizer,
     result |-> result]

NoCall == NormCall(Class("Item"), Datum("raw", "None"), <<>>, "None", NotCalled)

(***************************************************************************)
(* State                                                                   *)
(***************************************************************************)
\* an invocation: the command line as given, the disk it met, and what it left
\* behind (the exception, the standard output, the summary, the calls it made)
Invocation(cmd, verbose, debug, paths, kwargs, format, disk, run) ==
    [cmd |-> cmd, verbose |-> verbose, debug |-> debug, paths |-> paths,
     select |-> kwargs, format |-> format, pre |-> disk,
     exc |-> run.exc, output |-> run.output, emitted |-> run.emitted,
     loads |-> run.loads, inits |-> run.inits, absent |-> run.absent,
     stdout |-> run.stdout, found |-> run.found]

Idle(kwargs) ==
    Invocation("none", FALSE, 0, <<>>, kwargs, NoFormatOpts, <<>>,
               [exc |-> "none", output |-> <<>>, emitted |-> <<>>, loads |-> <<>>,
                inits |-> <<>>, absent |-> 0, stdout |-> <<>>, found |-> -1])

Unmerged == [k \in {"?"} |-> Scalar("?")]

\* fresh directories, nothing run yet
Init ==
    /\ fs = [d \in Dirs |-> [marker |-> "none", writable |-> TRUE]]
    /\ last = Idle(NoSelect)
    /\ mparent = EmptyData /\ mchild = EmptyData /\ mresult = Unmerged
    /\ norm = NoCall

(***************************************************************************)
(* Commands                                                                *)
(***************************************************************************)
\* fmf init --path ... (lines 164-171)
init(paths) ==
    LET run == init_run(fs, paths)
    IN  /\ fs' = run.disk
        /\ last' = Invocation("init", FALSE, 0, paths, NoSelect, NoFormatOpts, fs,
                              [exc |-> run.exc, output |-> <<>>, emitted |-> <<>>,
                               loads |-> <<>>, inits |-> run.inits, absent |-> 0,
                               stdout |-> run.stdout, found |-> -1])
        /\ UNCHANGED <<mparent, mchild, mresult, norm>>

\* fmf [--verbose] [--debug] ls ... (lines 145-151)
ls(verbose, debug, paths, kwargs) ==
    /\ last' = Invocation("ls", verbose, debug, paths, kwargs, NoFormatOpts, fs,
                          _show(fs, verbose, debug, paths, _select_options(kwargs),
                                NoFormatOpts, TRUE))
    /\ UNCHANGED <<fs, mparent, mchild, mresult, norm>>

\* fmf [--verbose] [--debug] show ... (lines 154-161)
show(verbose, debug, paths, kwargs, format) ==
    /\ last' = Invocation("show", verbose, debug, paths, kwargs, format, fs,
                          _show(fs, verbose, debug, paths, _select_options(kwargs),
                                format, FALSE))
    /\ UNCHANGED <<fs, mparent, mchild, mresult, norm>>

(***************************************************************************)
(* What the tests do to a directory between two commands.  The result of   *)
(* the last command describes the disk as that command left it, so it is   *)
(* forgotten when the disk is changed behind the program's back.           *)
(***************************************************************************)
\* open(version_path, "w").write("bad")
CorruptMarker(d) ==
    /\ fs[d].marker \in {"missing", "1"}
    /\ fs' = [fs EXCEPT ![d].marker = "bad"]
    /\ last' = Idle(NoSelect)
    /\ UNCHANGED <<mparent, mchild, mresult, norm>>

\* version_path.unlink()
DeleteMarker(d) ==
    /\ fs[d].marker \in {"bad", "1"}
    /\ fs' = [fs EXCEPT ![d].marker = "missing"]
    /\ last' = Idle(NoSelect)
    /\ UNCHANGED <<mparent, mchild, mresult, norm>>

\* secret_path.mkdir(0o666) and secret_path.chmod(0o777)
Chmod(d) ==
    /\ fs' = [fs EXCEPT ![d].writable = ~@]
    /\ last' = Idle(NoSelect)
    /\ UNCHANGED <<mparent, mchild, mresult, norm>>

\* one merge of a child into its parent (spec 4.1)
Merge ==
    /\ mresult = Unmerged
    /\ mresult' = merge(mparent, mchild)
    /\ UNCHANGED <<fs, last, mparent, mchild, norm>>

\* one selection over both trees with the request drawn at the start
Select ==
    /\ last.cmd = "none"
    /\ ls(FALSE, 0, <<"a", "b">>, last.select)

(***************************************************************************)
(* Specifications                                                          *)
(***************************************************************************)
\* the requests of the command line runs and of the selection runs
CliRequests == Requests({}, {<<"x">>}, {}, {}, {}, 1)
SelectRequests == Requests(AllKeys, AllNames, AllSources, AllFilters, AllConditions, MaxCrit)

StructuredOrValues ==
    {_format_options(NoFormatting, <<>>),
     _format_options(Formatting(<<"{0}", "\n">>), <<"depth">>)}

\* the command line on directories that are initialized, corrupted and repaired;
\* show is run structured and with a template that takes a value (every format
\* request is run under SpecFormat, write permissions change under SpecInit)
Next ==
    \/ \E paths \in PathLists : init(paths)
    \/ \E verbose \in BOOLEAN, debug \in 0..1, paths \in PathLists, sel \in CliRequests :
          ls(verbose, debug, paths, sel)
    \/ \E verbose \in BOOLEAN, debug \in 0..1, paths \in PathLists, sel \in CliRequests,
          format \in StructuredOrValues :
          show(verbose, debug, paths, sel, format)
    \/ \E d \in Dirs : CorruptMarker(d)
    \/ \E d \in Dirs : DeleteMarker(d)

Spec == Init /\ [][Next]_vars

\* init alone, on directories whose marker and permission change between commands
NextInit ==
    \/ \E paths \in PathLists : init(paths)
    \/ \E d \in Dirs : CorruptMarker(d)
    \/ \E d \in Dirs : DeleteMarker(d)
    \/ \E d \in Dirs : Chmod(d)

SpecInit == Init /\ [][NextInit]_vars

\* ls and show with every format request, on initialized directories
InitFormat ==
    /\ fs = [d \in Dirs |-> [marker |-> "1", writable |-> TRUE]]
    /\ last = Idle(NoSelect)
    /\ mparent = EmptyData /\ mchild = EmptyData /\ mresult = Unmerged
    /\ norm = NoCall

NextFormat ==
    \/ \E verbose \in BOOLEAN, debug \in 0..1, paths \in PathLists, sel \in CliRequests :
          ls(verbose, debug, paths, sel)
    \/ \E verbose \in BOOLEAN, debug \in 0..1, paths \in PathLists, sel \in CliRequests,
          format \in FormatRequests :
          show(verbose, debug, paths, sel, format)

SpecFormat == InitFormat /\ [][NextFormat]_vars

\* the selection: any request over the two trees
InitSelect ==
    /\ fs = [d \in Dirs |-> [marker |-> "1", writable |-> TRUE]]
    /\ last \in {Idle(sel) : sel \in SelectRequests}
    /\ mparent = EmptyData /\ mchild = EmptyData /\ mresult = Unmerged
    /\ norm = NoCall

SpecSelect == InitSelect /\ [][Select]_vars

\* the merge: any parent data and any child raw data
InitMerge ==
    /\ fs = [d \in Dirs |-> [marker |-> "none", writable |-> TRUE]]
    /\ last = Idle(NoSelect)
    /\ mparent \in MergeParents /\ mchild \in MergeChildren /\ mresult = Unmerged
    /\ norm = NoCall

SpecMerge == InitMerge /\ [][Merge]_vars

\* one call of normalize with the arguments drawn at the start
Normalize ==
    /\ norm.result = NotCalled
    /\ norm' = [norm EXCEPT !.result = normalize(norm.cls, norm.data, norm.args,
                                                 norm.normalizer)]
    /\ UNCHANGED <<fs, last, mparent, mchild, mresult>>

\* normalize: any target type, data, extra arguments and normalizer
InitNormalize ==
    /\ fs = [d \in Dirs |-> [marker |-> "none", writable |-> TRUE]]
    /\ last = Idle(NoSelect)
    /\ mparent = EmptyData /\ mchild = EmptyData /\ mresult = Unmerged
    /\ norm \in {NormCall(cls, data, args, normalizer, NotCalled) :
                    cls \in NormTypes, data \in NormData, args \in NormArgs,
                    normalizer \in Normalizers}

SpecNormalize == InitNormalize /\ [][Normalize]_vars

(***************************************************************************)
(* Claims                                                                  *)
(***************************************************************************)
NoMarker(m) == m \in {"none", "missing"}

\* C1 as stated: the first init on ANY directory without a version marker
\* succeeds; a later init fails with FileError and leaves the marker at 1.
C1_AnyDirectoryInitializes ==
    last.cmd = "init" =>
        \A i \in DOMAIN last.inits :
            /\ NoMarker(last.inits[i].marker) =>
                  last.inits[i].result = "ok" /\ fs[last.inits[i].path].marker = "1"
            /\ last.inits[i].marker = "1" =>
                  last.inits[i].result = "FileError" /\ fs[last.inits[i].path].marker = "1"

\* C1 (amended): an init on a WRITABLE directory without a version marker
\* succeeds and leaves the marker 1; an init on a directory that holds a marker
\* fails with FileError, ends the invocation with FileError and leaves the marker
\* as it was; no init turns an initialized directory (marker 1) into anything else.
C1_InitOnceThenFileError ==
    last.cmd = "init" =>
        /\ \A i \in DOMAIN last.inits :
              LET call == last.inits[i]
              IN  /\ (NoMarker(call.marker) /\ call.writable) =>
                         call.result = "ok" /\ fs[call.path].marker = "1"
                  /\ ~NoMarker(call.marker) =>
                         /\ call.result = "FileError"
                         /\ last.exc = "FileError"
                         /\ i = Len(last.inits)
                         /\ fs[call.path].marker = call.marker
        /\ \A d \in Dirs : ~NoMarker(last.pre[d].marker) => fs[d].marker = last.pre[d].marker
        /\ \A d \in Dirs : fs[d].marker # last.pre[d].marker => fs[d].marker = "1"

\* C1 witness: one invocation initializes a directory and its second init of the
\* same directory fails with FileError, the marker staying 1
C1_Witness ==
    /\ last.cmd = "init" /\ Len(last.inits) = 2
    /\ last.inits[1].path = last.inits[2].path
    /\ last.inits[1].result = "ok" /\ NoMarker(last.inits[1].marker)
    /\ last.inits[2].result = "FileError" /\ last.inits[2].marker = "1"
    /\ fs[last.inits[2].path].marker = "1"

\* C2: a tree whose root exists and whose version marker is missing or not an
\* integer fails to load with FormatError: the invocation (ls or show, any
\* selection) ends with FormatError and prints no node output.
C2_BadMarkerIsFormatError ==
    last.cmd \in {"ls", "show"} =>
        \A i \in DOMAIN last.loads :
            last.loads[i].marker \in {"missing", "bad"} =>
                /\ last.loads[i].result = "FormatError"
                /\ last.exc = "FormatError"
                /\ last.stdout = <<>>
                /\ last.found = -1

\* C2 witness: the second path of an invocation is a directory that was
\* initialized and then corrupted (a marker is only ever corrupted after an
\* init wrote it); the first tree loaded and had nodes to print
C2_Witness ==
    /\ last.cmd = "show" /\ Len(last.loads) = 2
    /\ last.loads[1].result = "ok" /\ last.emitted # <<>>
    /\ last.loads[2].marker = "bad" /\ last.exc = "FormatError"
    /\ last.select.names # {}

\* what ls prints for a valid root: its selected nodes
Rendered(i) ==
    \A n \in Range(prune(Grown(last.paths[i]), last.select)) :
        /\ <<i, n>> \in Range(last.emitted)
        /\ last.stdout # <<>>

\* C3: an error that is fatal for one root path does not abort the others: every
\* valid root of the invocation is still loaded, selected and rendered (ls), or
\* initialized (init), wherever the failing path stands in the list.
C3_OtherRootsStillProcessed ==
    /\ (last.cmd = "ls" /\ last.exc \in {"FileError", "FormatError"}) =>
          \A i \in DOMAIN last.paths :
              Tree(last.pre, last.paths[i]) = "ok" => Rendered(i)
    /\ last.cmd = "init" =>
          \A i \in DOMAIN last.paths :
              (NoMarker(last.pre[last.paths[i]].marker) /\ last.pre[last.paths[i]].writable)
                  => fs[last.paths[i]].marker = "1"

\* the nodes the last invocation printed, as pairs <<index of the path, node>>
Emitted == Range(last.emitted)

\* the candidates of path i: the leaves, or every node when --whole is given
Candidates(i) ==
    {n \in DOMAIN Grown(last.paths[i]) :
        last.select.whole \/ Grown(last.paths[i])[n].children = <<>>}

NodeAt(i, n) == Grown(last.paths[i])[n]

\* the stringified data[key], or one stringified element of a sequence, matches
FilterHolds(node, f) ==
    /\ f.key \in DOMAIN node.data
    /\ \/ node.data[f.key].t = "s" /\ node.data[f.key].v[1] \in Matched(f.pat)
       \/ node.data[f.key].t = "l"
            /\ \E e \in Range(node.data[f.key].v) : e \in Matched(f.pat)

OnlyFilters ==
    /\ last.select.keys = {} /\ last.select.names = {}
    /\ last.select.sources = {} /\ last.select.conditions = {}

\* C4: every selected node passes every one of the given filters, and with no
\* other criterion a candidate is selected iff it passes each filter.
C4_FiltersConjunction ==
    last.cmd = "ls" =>
        /\ \A e \in Emitted : \A f \in last.select.filters : FilterHolds(NodeAt(e[1], e[2]), f)
        /\ OnlyFilters =>
              \A i \in DOMAIN last.paths : \A n \in Candidates(i) :
                  (\A f \in last.select.filters : FilterHolds(NodeAt(i, n), f))
                      => <<i, n>> \in Emitted

\* C4 witness: filters tags:Tier1 and tags:TierSecurity select /x/p, which has
\* both tags, and exclude /x/q and /z, which have Tier1 only
C4_Witness ==
    /\ last.cmd = "ls"
    /\ last.select.filters = {Filter("tags", "Tier1"), Filter("tags", "TierSecurity")}
    /\ Emitted = {<<1, 3>>}
    /\ FilterHolds(NodeAt(1, 4), Filter("tags", "Tier1"))
    /\ FilterHolds(NodeAt(2, 2), Filter("tags", "Tier1"))

\* the condition cannot be evaluated on the node: the name is not bound, the
\* value cannot be indexed by a string, or the index is not a key of it
EvaluationError(node, c) ==
    \/ c.key \notin DOMAIN node.data
    \/ c.sub # "" /\ node.data[c.key].t # "m"
    \/ c.sub # "" /\ node.data[c.key].t = "m" /\ c.sub \notin {e[1] : e \in node.data[c.key].m}

OnlyConditions ==
    /\ last.select.keys = {} /\ last.select.names = {}
    /\ last.select.sources = {} /\ last.select.filters = {}

\* C5: a condition that cannot be evaluated on a node is never raised out of the
\* selection: the invocation ends normally, the node is excluded, and the nodes
\* on which every condition evaluates to true are still selected.
C5_ConditionErrorExcludes ==
    last.cmd = "ls" =>
        /\ last.exc = "none"
        /\ \A e \in Emitted : \A c \in last.select.conditions :
              ~EvaluationError(NodeAt(e[1], e[2]), c)
        /\ OnlyConditions =>
              \A i \in DOMAIN last.paths : \A n \in Candidates(i) :
                  (\A c \in last.select.conditions :
                      /\ ~EvaluationError(NodeAt(i, n), c)
                      /\ Evaluate(NodeAt(i, n), c) = "true")
                  => <<i, n>> \in Emitted

\* C5 witness: execute["how"] == "dependency" over the whole trees: every node
\* but /y lacks the key execute and is excluded, /y, the last node of its tree,
\* is still selected, and the invocation ends normally
C5_Witness ==
    /\ last.cmd = "ls" /\ last.exc = "none" /\ last.select.whole
    /\ last.select.conditions = {Condition("execute", "how", "dependency")}
    /\ Emitted = {<<1, 5>>}
    /\ EvaluationError(NodeAt(1, 1), Condition("execute", "how", "dependency"))

\* a candidate passes each kind of criterion that is not empty
PassesEachKind(node, sel) ==
    /\ sel.keys = {} \/ \A k \in sel.keys : k \in DOMAIN node.data
    /\ sel.names = {} \/ \E pat \in sel.names : Contains(node.segs, pat)
    /\ sel.sources = {} \/ \E src \in sel.sources : \E j \in DOMAIN node.sources :
                              Contains(node.sources[j].segs, src)
    /\ sel.filters = {} \/ \A f \in sel.filters : FilterHolds(node, f)
    /\ sel.conditions = {} \/ \A c \in sel.conditions : Evaluate(node, c) = "true"

\* what the same invocation selects with the request sel
Selected(sel) ==
    Range(_show(fs, FALSE, 0, last.paths, _select_options(sel), NoFormatOpts, TRUE).emitted)

\* the requests with one more key, filter or condition
Narrowed(sel) ==
    {[sel EXCEPT !.keys = @ \cup {k}] : k \in AllKeys \ sel.keys}
    \cup {[sel EXCEPT !.filters = @ \cup {f}] : f \in AllFilters \ sel.filters}
    \cup {[sel EXCEPT !.conditions = @ \cup {c}] : c \in AllConditions \ sel.conditions}

\* the requests with a first name or a first source
FirstOfKind(sel) ==
    {[sel EXCEPT !.names = {x}] : x \in IF sel.names = {} THEN AllNames ELSE {}}
    \cup {[sel EXCEPT !.sources = {x}] : x \in IF sel.sources = {} THEN AllSources ELSE {}}

\* the requests with one more name or source next to those already given
Widened(sel) ==
    {[sel EXCEPT !.names = @ \cup {x}] : x \in IF sel.names = {} THEN {} ELSE AllNames \ sel.names}
    \cup {[sel EXCEPT !.sources = @ \cup {x}] :
             x \in IF sel.sources = {} THEN {} ELSE AllSources \ sel.sources}

\* C6 as stated: adding a criterion of ANY kind can only remove nodes from the
\* result, never add one.
C6_AnyCriterionNarrows ==
    last.cmd = "ls" =>
        \A sel \in Narrowed(last.select) \cup FirstOfKind(last.select) \cup Widened(last.select) :
            Selected(sel) \subseteq Emitted

\* C6 (amended): the five kinds are combined by AND and an empty kind does not
\* restrict: a candidate is selected iff it passes each non-empty kind; with all
\* five empty every candidate is selected; adding a key, a filter or a condition,
\* or the first name or the first source, can only remove nodes from the result.
C6_KindsConjunction ==
    last.cmd = "ls" =>
        /\ \A i \in DOMAIN last.paths : \A n \in DOMAIN Grown(last.paths[i]) :
              <<i, n>> \in Emitted <=>
                  (n \in Candidates(i) /\ PassesEachKind(NodeAt(i, n), last.select))
        /\ Criteria(last.select) = 0 =>
              \A i \in DOMAIN last.paths : \A n \in Candidates(i) : <<i, n>> \in Emitted
        /\ \A sel \in Narrowed(last.select) \cup FirstOfKind(last.select) :
              Selected(sel) \subseteq Emitted

\* C6 witness: a request with two kinds, a source and a condition, selects some
\* candidates and not others
C6_Witness ==
    /\ last.cmd = "ls"
    /\ last.select.sources = {<<"x", "main.fmf">>}
    /\ last.select.conditions = {Condition("depth", "", "1000")}
    /\ Emitted = {<<1, 3>>}
    /\ <<1, 4>> \notin Emitted /\ 4 \in Candidates(1)

\* the nodes from the root down to n
RECURSIVE RootPath(_, _)
RootPath(nodes, n) ==
    IF nodes[n].parent = 0 THEN <<n>> ELSE Append(RootPath(nodes, nodes[n].parent), n)

Position(seq, x) == CHOOSE k \in DOMAIN seq : seq[k] = x

\* n comes before m in pre-order: n is an ancestor of m, or below their last
\* common ancestor the branch of n is an earlier child than the branch of m
PreorderBefore(nodes, n, m) ==
    LET pn == RootPath(nodes, n)
        pm == RootPath(nodes, m)
    IN  IF Len(pn) < Len(pm) /\ SubSeq(pm, 1, Len(pn)) = pn THEN TRUE
        ELSE IF Len(pm) <= Len(pn) /\ SubSeq(pn, 1, Len(pm)) = pm THEN FALSE
        ELSE LET k == CHOOSE j \in DOMAIN pn :
                          /\ j \in DOMAIN pm /\ pn[j] # pm[j]
                          /\ \A h \in 1..(j - 1) : pn[h] = pm[h]
             IN  Position(nodes[pn[k - 1]].children, pn[k])
                     < Position(nodes[pn[k - 1]].children, pm[k])

\* the text the invocation collects for a node
Collected(node) ==
    NodeShow(node, last.format, last.cmd = "ls").text
        \o (IF last.debug > 0 THEN SourceLines(node.sources) ELSE <<>>)

\* C7: the collected outputs are those of selected candidates, in pre-order of
\* their tree (a parent before its children, siblings in discovery order), all of
\* an earlier path before all of a later path, none twice; an invocation that
\* ends normally has collected every selected node that has an output.
C7_PreorderOutput ==
    last.cmd \in {"ls", "show"} =>
        /\ \A k \in 1..(Len(last.emitted) - 1) :
              LET e == last.emitted[k]
                  f == last.emitted[k + 1]
              IN  \/ e[1] < f[1]
                  \/ e[1] = f[1] /\ PreorderBefore(Grown(last.paths[e[1]]), e[2], f[2])
        /\ \A e \in Emitted :
              e[2] \in Candidates(e[1]) /\ PassesEachKind(NodeAt(e[1], e[2]), last.select)
        /\ Len(last.output) = Len(last.emitted)
        /\ \A k \in DOMAIN last.emitted :
              last.output[k] = Collected(NodeAt(last.emitted[k][1], last.emitted[k][2]))
        /\ last.exc = "none" =>
              \A i \in DOMAIN last.paths : \A n \in Candidates(i) :
                  (/\ PassesEachKind(NodeAt(i, n), last.select)
                   /\ ~NodeShow(NodeAt(i, n), last.format, last.cmd = "ls").none)
                  => <<i, n>> \in Emitted

\* C7 witness: show --name x --whole on the paths a and a prints the parent /x
\* before its children /x/p and /x/q, first for the first path, then for the
\* second, and leaves out / and /y, which fail the selection
C7_Witness ==
    /\ last.cmd = "show" /\ last.exc = "none"
    /\ last.paths = <<"a", "a">> /\ last.select.whole /\ last.select.names = {<<"x">>}
    /\ last.emitted = << <<1, 2>>, <<1, 3>>, <<1, 4>>, <<2, 2>>, <<2, 3>>, <<2, 4>> >>
    /\ last.stdout # <<>>

RECURSIVE Concatenated(_)
Concatenated(texts) ==
    IF texts = <<>> THEN <<>> ELSE Head(texts) \o Concatenated(Tail(texts))

\* the texts with one line terminator between two consecutive ones
RECURSIVE BlankLineBetween(_)
BlankLineBetween(texts) ==
    IF Len(texts) <= 1 THEN Concatenated(texts)
    ELSE Head(texts) \o <<"\n">> \o BlankLineBetween(Tail(texts))

\* C8: in brief mode and in literal-template mode (a template and no values) the
\* node outputs are concatenated with no separator; structured show output
\* without a template is joined with a single blank line between two outputs;
\* nothing is added before the first or after the last output.
C8_JoinByMode ==
    (last.cmd \in {"ls", "show"} /\ last.exc = "none") =>
        /\ (last.cmd = "ls" \/ (last.format.formatting.given /\ last.format.values = <<>>))
              => last.stdout = Concatenated(last.output)
        /\ (last.cmd = "show" /\ ~last.format.formatting.given)
              => last.stdout = BlankLineBetween(last.output)

\* C9: a child key tag+ on a parent key tag, both sequences, resolves to the
\* parent sequence followed by the child sequence; a child key tag- resolves to
\* the parent sequence without the child's listed elements, the others in their
\* order; the resolved data holds the key tag and no key tag+ or tag-.
C9_MarkerMerge ==
    mresult # Unmerged =>
        \A k \in DOMAIN mchild :
            LET b == CASE k \in {"tag+", "tag-"} -> "tag"
                       [] k \in {"note+", "note-"} -> "note"
                       [] OTHER -> k
            IN  (b # k /\ b \in DOMAIN mparent /\ mparent[b].t = "l" /\ mchild[k].t = "l") =>
                    /\ b \in DOMAIN mresult
                    /\ k \notin DOMAIN mresult
                    /\ k \in {"tag+", "note+"} =>
                          mresult[b] = List(mparent[b].v \o mchild[k].v)
                    /\ k \in {"tag-", "note-"} =>
                          /\ mresult[b].t = "l"
                          /\ mresult[b].v =
                                SelectSeq(mparent[b].v,
                                          LAMBDA e : \A j \in DOMAIN mchild[k].v : mchild[k].v[j] # e)

\* C9 witness: parent tag [a, b] and note [a, b], child tag+ [b] and note- [b]
\* resolve to tag [a, b, b] and note [a]
C9_Witness ==
    /\ mresult # Unmerged
    /\ mparent = [tag |-> List(<<"a", "b">>), note |-> List(<<"a", "b">>)]
    /\ DOMAIN mchild = {"tag+", "note-"}
    /\ mchild["tag+"] = List(<<"b">>) /\ mchild["note-"] = List(<<"b">>)
    /\ mresult = [tag |-> List(<<"a", "b", "b">>), note |-> List(<<"a">>)]

\* C10: a selected node whose output is absent adds nothing to the printed
\* output and is not counted in the summary, with debug on or off: _show ends
\* normally for such a node and N is the number of nodes that had an output.
C10_AbsentOutputSkipped ==
    (last.cmd \in {"ls", "show"} /\ last.absent > 0) =>
        /\ last.exc # "TypeError"
        /\ (last.exc = "none" /\ last.verbose) => last.found = Len(last.emitted)

\* the callee of normalize: the normalizer when one is given, else the class
Callee(class) == IF norm.normalizer # "None" THEN norm.normalizer ELSE class

\* C11: for the target type list[X] the result is a list with one element for
\* each input element, in input order, data that is not a list counting as the
\* list of that one element; each element is normalizer(d) when a normalizer is
\* given and X(d) otherwise.  For any other target type the result is
\* normalizer(data) when a normalizer is given and cls(data) otherwise, not
\* wrapped in a list.
C11_Normalize ==
    norm.result # NotCalled =>
        IF norm.cls.generic /\ norm.cls.origin = "list"
        THEN /\ norm.result.list
             /\ norm.data.t = "list" =>
                   /\ Len(norm.result.items) = Len(norm.data.v)
                   /\ \A i \in DOMAIN norm.data.v :
                         norm.result.items[i] = Call(Callee(norm.cls.arg), norm.data.v[i], norm.args)
             /\ norm.data.t # "list" =>
                   norm.result.items = <<Call(Callee(norm.cls.arg), norm.data, norm.args)>>
        ELSE /\ ~norm.result.list
             /\ norm.result.items = <<Call(Callee(norm.cls.origin), norm.data, norm.args)>>

\* C11 witness: normalize(list[Item], [b, a], normalizer=f) gives [f(b), f(a)]
C11_Witness ==
    /\ norm.cls = GenericAlias("list", "Item") /\ norm.normalizer = "f"
    /\ norm.data = ListData(<<Datum("raw", "b"), Datum("raw", "a")>>)
    /\ norm.args = <<>>
    /\ norm.result = Objects(<<Call("f", Datum("raw", "b"), <<>>),
                               Call("f", Datum("raw", "a"), <<>>)>>)

====
